---- MODULE Spec2Model ----
(***************************************************************************)
(* cw-lockbox: a time-locked escrow contract (src/src/contract.rs).        *)
(*                                                                         *)
(* The contract keeps one configuration item (STATE) and a map LOCKS from  *)
(* (owner, id) to a Lock.  Every entry point runs to completion against    *)
(* the store; a call that returns Err leaves the store as it was.          *)
(*                                                                         *)
(* Timestamps are counted in ticks, TicksPerSec ticks to the second        *)
(* (cosmwasm_std::Timestamp counts nanoseconds; seconds() truncates and    *)
(* minus_seconds() subtracts whole seconds).  Amounts are naturals up to   *)
(* MaxAmount, the largest representable amount.                            *)
(***************************************************************************)
EXTENDS Integers, Sequences, FiniteSets, TLC

VARIABLES state, locks, call, response

vars == <<state, locks, call, response>>

---------------------------------------------------------------------------
(* Bounds of the model *)

\* Ticks per second (stands for the 10^9 nanoseconds of a Timestamp).
TicksPerSec == 2
\* Block times and expiries range over 0..MaxTime ticks.
MaxTime == 2
\* Largest representable amount (stands for u128::MAX).
MaxAmount == 2

Times == 0..MaxTime
\* max_lock_time (seconds) given to instantiate: nothing, and up to one
\* second more than the longest duration the times allow.
LockTimes == 0..(MaxTime \div TicksPerSec + 1)
\* Amount of one deposited coin or cw20 transfer.
Amounts == {0, 1}

Creators == {"creator"}
Owners == {"alice", "bob"}
Ids == {"1"}
Denoms == {"token"}
Tokens == {"cw20a"}

---------------------------------------------------------------------------
(* Balances *)

Coin(d, a) == [denom |-> d, amount |-> a]
Cw20CoinVerified(t, a) == [address |-> t, amount |-> a]

\* cw20::Balance: the native coins sent with a call, or one cw20 amount.
Native(coins) == [kind |-> "native", coins |-> coins, address |-> "", amount |-> 0]
Cw20(t, a) == [kind |-> "cw20", coins |-> <<>>, address |-> t, amount |-> a]

\* The funds a call can carry: no coin at all, or one coin of a denom.
NativeFunds == {<<>>} \cup {<<Coin(d, a)>> : d \in Denoms, a \in Amounts}
NativeBalances == {Native(c) : c \in NativeFunds}

\* Variant of is_empty that looks only at whether a coin was sent at all.
is_empty_no_coin(balance) ==
    IF balance.kind = "native"
    THEN balance.coins = <<>>
    ELSE balance.amount = 0

\* Balance::is_empty: no native coin with a non-zero amount / a zero cw20 amount.
is_empty(balance) ==
    IF balance.kind = "native"
    THEN ~ \E i \in DOMAIN balance.coins : balance.coins[i].amount # 0
    ELSE balance.amount = 0

\* GenericBalance from a Balance (funds: balance.into()).
into_generic(balance) ==
    IF balance.kind = "native"
    THEN [native |-> balance.coins, cw20 |-> <<>>]
    ELSE [native |-> <<>>,
          cw20 |-> <<Cw20CoinVerified(balance.address, balance.amount)>>]

\* Index of the first entry of seq whose field f equals v, 0 if none.
find_index(seq, f, v) ==
    IF \E i \in DOMAIN seq : seq[i][f] = v
    THEN CHOOSE i \in DOMAIN seq :
            /\ seq[i][f] = v
            /\ \A j \in 1..(i - 1) : seq[j][f] # v
    ELSE 0

\* Add one entry to a list keyed by field f: sum into the match, or push.
add_entry(seq, f, e) ==
    LET idx == find_index(seq, f, e[f])
    IN IF idx # 0
       THEN [seq EXCEPT ![idx].amount = @ + e.amount]
       ELSE Append(seq, e)

RECURSIVE add_native(_, _)
add_native(native, coins) ==
    IF coins = <<>> THEN native
    ELSE add_native(add_entry(native, "denom", Head(coins)), Tail(coins))

\* GenericBalance::add_tokens: merge a deposit into the funds.
add_tokens(funds, balance) ==
    IF balance.kind = "native"
    THEN [funds EXCEPT !.native = add_native(@, balance.coins)]
    ELSE [funds EXCEPT !.cw20 =
            add_entry(@, "address", Cw20CoinVerified(balance.address, balance.amount))]

\* A sum that the amount type cannot represent.
overflows(funds) ==
    \/ \E i \in DOMAIN funds.native : funds.native[i].amount > MaxAmount
    \/ \E i \in DOMAIN funds.cw20 : funds.cw20[i].amount > MaxAmount

---------------------------------------------------------------------------
(* Timestamps *)

\* Timestamp::seconds: whole seconds, truncated.
seconds(t) == t \div TicksPerSec
\* Timestamp::minus_seconds.
minus_seconds(t, s) == t - s * TicksPerSec

---------------------------------------------------------------------------
(* Responses *)

Ok(ls, msgs) == [result |-> "Ok", locks |-> ls, messages |-> msgs]
Err(ls, e) == [result |-> e, locks |-> ls, messages |-> <<>>]

BankSend(to, amount) ==
    [type |-> "bank", to |-> to, contract |-> "", native |-> amount, amount |-> 0]
Cw20Transfer(contract, to, amount) ==
    [type |-> "cw20", to |-> to, contract |-> contract, native |-> <<>>, amount |-> amount]

\* Variant of send_tokens that sends the cw20 entries only when there are no
\* native coins.
send_tokens_either(to, balance) ==
    IF balance.native = <<>>
    THEN [i \in DOMAIN balance.cw20 |->
            Cw20Transfer(balance.cw20[i].address, to, balance.cw20[i].amount)]
    ELSE <<BankSend(to, balance.native)>>

\* send_tokens: one bank send for the native coins, if any, then one cw20
\* transfer per cw20 entry, in the order of the list.
send_tokens(to, balance) ==
    (IF balance.native = <<>> THEN <<>> ELSE <<BankSend(to, balance.native)>>)
    \o [i \in DOMAIN balance.cw20 |->
          Cw20Transfer(balance.cw20[i].address, to, balance.cw20[i].amount)]

---------------------------------------------------------------------------
(* The handlers, as functions of the store and the call *)

Key(owner, id) == <<owner, id>>

Lock(create, expire, funds, complete, owner) ==
    [create |-> create, expire |-> expire, funds |-> funds,
     complete |-> complete, owner |-> owner]

\* LOCKS.save
save(ls, key, lock) ==
    [k \in DOMAIN ls \cup {key} |-> IF k = key THEN lock ELSE ls[k]]

\* Variant of try_lock that admits a duration equal to max_lock_time.
try_lock_inclusive_bound(ls, st, now, balance, sender, id, expire) ==
    IF is_empty(balance) THEN Err(ls, "EmptyBalance")
    ELSE IF now >= expire THEN Err(ls, "LowExpired")
    ELSE IF seconds(minus_seconds(expire, seconds(now))) > st.max_lock_time
         THEN Err(ls, "HighExpired")
    ELSE IF Key(sender, id) \in DOMAIN ls THEN Err(ls, "AlreadyInUse")
    ELSE Ok(save(ls, Key(sender, id),
                 Lock(now, expire, into_generic(balance), FALSE, sender)),
            <<>>)

\* Variant of try_lock that writes the lock before it finds the id in use.
try_lock_write_first(ls, st, now, balance, sender, id, expire) ==
    IF is_empty(balance) THEN Err(ls, "EmptyBalance")
    ELSE IF now >= expire THEN Err(ls, "LowExpired")
    ELSE IF seconds(minus_seconds(expire, seconds(now))) >= st.max_lock_time
         THEN Err(ls, "HighExpired")
    ELSE LET saved == save(ls, Key(sender, id),
                           Lock(now, expire, into_generic(balance), FALSE, sender))
         IN IF Key(sender, id) \in DOMAIN ls THEN Err(saved, "AlreadyInUse")
            ELSE Ok(saved, <<>>)

\* Variant of try_lock that takes the id of a completed lock as free.
try_lock_reuse_completed(ls, st, now, balance, sender, id, expire) ==
    IF is_empty(balance) THEN Err(ls, "EmptyBalance")
    ELSE IF now >= expire THEN Err(ls, "LowExpired")
    ELSE IF seconds(minus_seconds(expire, seconds(now))) >= st.max_lock_time
         THEN Err(ls, "HighExpired")
    ELSE IF Key(sender, id) \in DOMAIN ls /\ ~ ls[Key(sender, id)].complete
         THEN Err(ls, "AlreadyInUse")
    ELSE Ok(save(ls, Key(sender, id),
                 Lock(now, expire, into_generic(balance), FALSE, sender)),
            <<>>)

\* Variant of try_lock that refuses an expiry only when it lies before now.
try_lock_expire_now(ls, st, now, balance, sender, id, expire) ==
    IF is_empty(balance) THEN Err(ls, "EmptyBalance")
    ELSE IF now > expire THEN Err(ls, "LowExpired")
    ELSE IF seconds(minus_seconds(expire, seconds(now))) >= st.max_lock_time
         THEN Err(ls, "HighExpired")
    ELSE IF Key(sender, id) \in DOMAIN ls THEN Err(ls, "AlreadyInUse")
    ELSE Ok(save(ls, Key(sender, id),
                 Lock(now, expire, into_generic(balance), FALSE, sender)), <<>>)

\* Variant of try_lock that answers with a transfer of the deposit to the sender.
try_lock_refund(ls, st, now, balance, sender, id, expire) ==
    IF is_empty(balance) THEN Err(ls, "EmptyBalance")
    ELSE IF now >= expire THEN Err(ls, "LowExpired")
    ELSE IF seconds(minus_seconds(expire, seconds(now))) >= st.max_lock_time
         THEN Err(ls, "HighExpired")
    ELSE IF Key(sender, id) \in DOMAIN ls THEN Err(ls, "AlreadyInUse")
    ELSE Ok(save(ls, Key(sender, id),
                 Lock(now, expire, into_generic(balance), FALSE, sender)),
            send_tokens(sender, into_generic(balance)))

try_lock(ls, st, now, balance, sender, id, expire) ==
    IF is_empty(balance) THEN Err(ls, "EmptyBalance")
    ELSE IF now >= expire THEN Err(ls, "LowExpired")
    ELSE IF seconds(minus_seconds(expire, seconds(now))) >= st.max_lock_time
         THEN Err(ls, "HighExpired")
    ELSE IF Key(sender, id) \in DOMAIN ls THEN Err(ls, "AlreadyInUse")
    ELSE Ok(save(ls, Key(sender, id),
                 Lock(now, expire, into_generic(balance), FALSE, sender)),
            <<>>)

\* Variant of try_increase_lock that opens the lock again on a top-up.
try_increase_lock_reopen(ls, balance, sender, id) ==
    IF is_empty(balance) THEN Err(ls, "EmptyBalance")
    ELSE IF Key(sender, id) \notin DOMAIN ls THEN Err(ls, "NotFound")
    ELSE LET lock == ls[Key(sender, id)]
             funds == add_tokens(lock.funds, balance)
         IN IF overflows(funds) THEN Err(ls, "Overflow")
            ELSE Ok(save(ls, Key(sender, id),
                         [lock EXCEPT !.funds = funds, !.complete = FALSE]), <<>>)

\* Variant of try_increase_lock that refuses a completed lock.
try_increase_lock_open_only(ls, balance, sender, id) ==
    IF is_empty(balance) THEN Err(ls, "EmptyBalance")
    ELSE IF Key(sender, id) \notin DOMAIN ls THEN Err(ls, "NotFound")
    ELSE LET lock == ls[Key(sender, id)]
             funds == add_tokens(lock.funds, balance)
         IN IF lock.complete THEN Err(ls, "LockComplete")
            ELSE IF overflows(funds) THEN Err(ls, "Overflow")
            ELSE Ok(save(ls, Key(sender, id), [lock EXCEPT !.funds = funds]), <<>>)

\* Variant of try_increase_lock that answers Ok without saving the lock.
try_increase_lock_no_save(ls, balance, sender, id) ==
    IF is_empty(balance) THEN Err(ls, "EmptyBalance")
    ELSE IF Key(sender, id) \notin DOMAIN ls THEN Err(ls, "NotFound")
    ELSE IF overflows(add_tokens(ls[Key(sender, id)].funds, balance))
         THEN Err(ls, "Overflow")
         ELSE Ok(ls, <<>>)

\* Variant of try_increase_lock that stores the deposit in place of the funds.
try_increase_lock_replace(ls, balance, sender, id) ==
    IF is_empty(balance) THEN Err(ls, "EmptyBalance")
    ELSE IF Key(sender, id) \notin DOMAIN ls THEN Err(ls, "NotFound")
    ELSE Ok(save(ls, Key(sender, id),
                 [ls[Key(sender, id)] EXCEPT !.funds = into_generic(balance)]), <<>>)

\* Variant of try_increase_lock whose sums wrap around past the largest amount.
try_increase_lock_wrapping(ls, balance, sender, id) ==
    IF is_empty(balance) THEN Err(ls, "EmptyBalance")
    ELSE IF Key(sender, id) \notin DOMAIN ls THEN Err(ls, "NotFound")
    ELSE LET lock == ls[Key(sender, id)]
             funds == add_tokens(lock.funds, balance)
             wrapped ==
                 [native |-> [i \in DOMAIN funds.native |->
                                [funds.native[i] EXCEPT !.amount = @ % (MaxAmount + 1)]],
                  cw20 |-> [i \in DOMAIN funds.cw20 |->
                                [funds.cw20[i] EXCEPT !.amount = @ % (MaxAmount + 1)]]]
         IN Ok(save(ls, Key(sender, id), [lock EXCEPT !.funds = wrapped]), <<>>)

\* Variant of try_increase_lock that tops up every lock of the sender.
try_increase_lock_every_id(ls, balance, sender, id) ==
    IF is_empty(balance) THEN Err(ls, "EmptyBalance")
    ELSE IF Key(sender, id) \notin DOMAIN ls THEN Err(ls, "NotFound")
    ELSE IF overflows(add_tokens(ls[Key(sender, id)].funds, balance))
         THEN Err(ls, "Overflow")
    ELSE Ok([k \in DOMAIN ls |->
               IF k[1] = sender /\ ~ overflows(add_tokens(ls[k].funds, balance))
               THEN [ls[k] EXCEPT !.funds = add_tokens(ls[k].funds, balance)]
               ELSE ls[k]], <<>>)

try_increase_lock(ls, balance, sender, id) ==
    IF is_empty(balance) THEN Err(ls, "EmptyBalance")
    ELSE IF Key(sender, id) \notin DOMAIN ls THEN Err(ls, "NotFound")
    ELSE LET lock == ls[Key(sender, id)]
             funds == add_tokens(lock.funds, balance)
         IN IF overflows(funds) THEN Err(ls, "Overflow")
            ELSE Ok(save(ls, Key(sender, id), [lock EXCEPT !.funds = funds]), <<>>)

\* Variant of try_unlock that releases at the expiry itself (now < expire).
try_unlock_at_expiry(ls, now, sender, id) ==
    IF Key(sender, id) \notin DOMAIN ls THEN Err(ls, "NotFound")
    ELSE LET lock == ls[Key(sender, id)]
         IN IF lock.complete THEN Err(ls, "LockComplete")
            ELSE IF now < lock.expire THEN Err(ls, "LockNotExpired")
            ELSE Ok(save(ls, Key(sender, id), [lock EXCEPT !.complete = TRUE]),
                    send_tokens(sender, lock.funds))

\* Variant of try_unlock without the test of the complete flag.
try_unlock_no_complete_check(ls, now, sender, id) ==
    IF Key(sender, id) \notin DOMAIN ls THEN Err(ls, "NotFound")
    ELSE LET lock == ls[Key(sender, id)]
         IN IF now <= lock.expire THEN Err(ls, "LockNotExpired")
            ELSE Ok(save(ls, Key(sender, id), [lock EXCEPT !.complete = TRUE]),
                    send_tokens(sender, lock.funds))

\* Variant of try_unlock that finds the lock by its id alone.
try_unlock_by_id(ls, now, sender, id) ==
    IF ~ \E k \in DOMAIN ls : k[2] = id THEN Err(ls, "NotFound")
    ELSE LET key == CHOOSE k \in DOMAIN ls : k[2] = id
             lock == ls[key]
         IN IF lock.complete THEN Err(ls, "LockComplete")
            ELSE IF now <= lock.expire THEN Err(ls, "LockNotExpired")
            ELSE Ok(save(ls, key, [lock EXCEPT !.complete = TRUE]),
                    send_tokens(sender, lock.funds))

\* Variant of try_unlock that removes the released lock from the ledger.
try_unlock_remove(ls, now, sender, id) ==
    IF Key(sender, id) \notin DOMAIN ls THEN Err(ls, "NotFound")
    ELSE LET lock == ls[Key(sender, id)]
         IN IF lock.complete THEN Err(ls, "LockComplete")
            ELSE IF now <= lock.expire THEN Err(ls, "LockNotExpired")
            ELSE Ok([k \in DOMAIN ls \ {Key(sender, id)} |-> ls[k]],
                    send_tokens(sender, lock.funds))

try_unlock(ls, now, sender, id) ==
    IF Key(sender, id) \notin DOMAIN ls THEN Err(ls, "NotFound")
    ELSE LET lock == ls[Key(sender, id)]
         IN IF lock.complete THEN Err(ls, "LockComplete")
            ELSE IF now <= lock.expire THEN Err(ls, "LockNotExpired")
            ELSE Ok(save(ls, Key(sender, id), [lock EXCEPT !.complete = TRUE]),
                    send_tokens(sender, lock.funds))

\* Variant of try_recive that takes the invoking contract for the sender.
try_recive_invoker(ls, st, now, token, sender, amount, msg, id, expire) ==
    IF msg = "bad" THEN Err(ls, "ParseErr")
    ELSE IF msg = "lock"
         THEN try_lock(ls, st, now, Cw20(token, amount), token, id, expire)
    ELSE try_increase_lock(ls, Cw20(token, amount), token, id)

\* try_recive: a cw20 contract (token) reports a transfer of amount made by
\* sender; msg is the decoded inner message, "bad" when it does not decode.
try_recive(ls, st, now, token, sender, amount, msg, id, expire) ==
    IF msg = "bad" THEN Err(ls, "ParseErr")
    ELSE IF msg = "lock"
         THEN try_lock(ls, st, now, Cw20(token, amount), sender, id, expire)
    ELSE try_increase_lock(ls, Cw20(token, amount), sender, id)

---------------------------------------------------------------------------
(* Queries *)

to_lock_info(lock, id) ==
    [id |-> id, owner |-> lock.owner, create |-> lock.create,
     expire |-> lock.expire, complete |-> lock.complete,
     native_balance |-> lock.funds.native, cw20_balance |-> lock.funds.cw20]

NotFound == [id |-> "NotFound"]

query_lock(ls, address, id) ==
    IF Key(address, id) \in DOMAIN ls
    THEN to_lock_info(ls[Key(address, id)], id)
    ELSE NotFound

\* The bytes of an id, as the store orders its keys by them.
IdBytes(id) ==
    CASE id = "1" -> <<49>>
      [] id = "10" -> <<49, 48>>
      [] id = "2" -> <<50>>
      [] OTHER -> <<>>

\* Byte-wise order of two keys: a before b.
RECURSIVE BytesLess(_, _)
BytesLess(a, b) ==
    IF b = <<>> THEN FALSE
    ELSE IF a = <<>> THEN TRUE
    ELSE IF Head(a) # Head(b) THEN Head(a) < Head(b)
    ELSE BytesLess(Tail(a), Tail(b))

\* The ids in the set ids, in the order Order::Ascending ranges over them.
RECURSIVE Ascending(_)
Ascending(ids) ==
    IF ids = {} THEN <<>>
    ELSE LET first == CHOOSE i \in ids :
                         \A j \in ids \ {i} : BytesLess(IdBytes(i), IdBytes(j))
         IN <<first>> \o Ascending(ids \ {first})

\* Variant of query_locks that ranges over the ids downwards.
query_locks_descending(ls, address) ==
    LET ids == {k[2] : k \in {x \in DOMAIN ls : x[1] = address}}
        asc == Ascending(ids)
    IN [i \in DOMAIN asc |->
          to_lock_info(ls[Key(address, asc[Len(asc) + 1 - i])], asc[Len(asc) + 1 - i])]

\* query_locks: the locks under the prefix of the owner, ascending by id.
query_locks(ls, address) ==
    LET ids == {k[2] : k \in {x \in DOMAIN ls : x[1] = address}}
        asc == Ascending(ids)
    IN [i \in DOMAIN asc |-> to_lock_info(ls[Key(address, asc[i])], asc[i])]

---------------------------------------------------------------------------
(* The state machine *)

\* The host runs one call at a time: a call runs to completion and its
\* response is handed back (Return) before the next call starts.  call holds
\* the call being answered, response what it returned.

NoCall ==
    [op |-> "none", sender |-> "", id |-> "", now |-> 0, expire |-> 0,
     balance |-> Native(<<>>)]

NoResponse == [result |-> "none", messages |-> <<>>]

Call(op, sender, id, now, expire, balance) ==
    [op |-> op, sender |-> sender, id |-> id, now |-> now, expire |-> expire,
     balance |-> balance]

Idle == call.op = "none"

Init ==
    /\ state = [instantiated |-> FALSE, max_lock_time |-> 0, owner |-> ""]
    /\ locks = <<>>
    /\ call = NoCall
    /\ response = NoResponse

\* What a call leaves behind: the store it returns and its response.
Commit(r) ==
    /\ locks' = r.locks
    /\ response' = [result |-> r.result, messages |-> r.messages]

instantiate(sender, max_lock_time) ==
    /\ Idle
    /\ ~ state.instantiated
    /\ state' = [instantiated |-> TRUE, max_lock_time |-> max_lock_time,
                 owner |-> sender]
    /\ call' = Call("instantiate", sender, "", 0, 0, Native(<<>>))
    /\ response' = [result |-> "Ok", messages |-> <<>>]
    /\ UNCHANGED locks

ExecuteLock(sender, id, expire, balance, now) ==
    /\ Idle
    /\ state.instantiated
    /\ call' = Call("lock", sender, id, now, expire, balance)
    /\ Commit(try_lock(locks, state, now, balance, sender, id, expire))
    /\ UNCHANGED state

ExecuteIncreaseLock(sender, id, balance) ==
    /\ Idle
    /\ state.instantiated
    /\ call' = Call("increase_lock", sender, id, 0, 0, balance)
    /\ Commit(try_increase_lock(locks, balance, sender, id))
    /\ UNCHANGED state

ExecuteUnlock(sender, id, now) ==
    /\ Idle
    /\ state.instantiated
    /\ call' = Call("unlock", sender, id, now, 0, Native(<<>>))
    /\ Commit(try_unlock(locks, now, sender, id))
    /\ UNCHANGED state

ExecuteReceive(token, sender, amount, msg, id, expire, now) ==
    /\ Idle
    /\ state.instantiated
    /\ call' = Call("receive_" \o msg, sender, id, now, expire, Cw20(token, amount))
    /\ Commit(try_recive(locks, state, now, token, sender, amount, msg, id, expire))
    /\ UNCHANGED state

\* The response goes back to the caller.
Return ==
    /\ ~ Idle
    /\ call' = NoCall
    /\ response' = NoResponse
    /\ UNCHANGED <<state, locks>>

\* The calls with their inputs drawn from the given owners, ids, times,
\* max_lock_time values, native balances, cw20 contracts and amounts.
Step(O, I, T, M, NB, TK, A) ==
    \/ \E sender \in Creators, m \in M : instantiate(sender, m)
    \/ \E sender \in O, id \in I, expire \in T, now \in T, balance \in NB :
            ExecuteLock(sender, id, expire, balance, now)
    \/ \E sender \in O, id \in I, balance \in NB :
            ExecuteIncreaseLock(sender, id, balance)
    \/ \E sender \in O, id \in I, now \in T :
            ExecuteUnlock(sender, id, now)
    \/ \E token \in TK, sender \in O, amount \in A, id \in I,
          expire \in T, now \in T :
            ExecuteReceive(token, sender, amount, "lock", id, expire, now)
    \/ \E token \in TK, sender \in O, amount \in A, id \in I :
            ExecuteReceive(token, sender, amount, "increase_lock", id, 0, 0)
    \/ \E token \in TK, sender \in O, amount \in A :
            ExecuteReceive(token, sender, amount, "bad", "", 0, 0)
    \/ Return

Next == Step(Owners, Ids, Times, LockTimes, NativeBalances, Tokens, Amounts)

Spec == Init /\ [][Next]_vars

\* One owner and one id, with two denoms and two cw20 contracts.
FundDenoms == {"atom", "token"}
FundTokens == {"cw20a", "cw20b"}
\* The host hands the coins over sorted by denom, one coin per denom.
FundNativeFunds ==
    {<<>>}
    \cup {<<Coin(d, a)>> : d \in FundDenoms, a \in Amounts}
    \cup {<<Coin("atom", a), Coin("token", b)>> : a, b \in Amounts}
FundNativeBalances == {Native(c) : c \in FundNativeFunds}

NextFunds ==
    Step({"alice"}, {"1"}, Times, {1}, FundNativeBalances, FundTokens, Amounts)

SpecFunds == Init /\ [][NextFunds]_vars

\* Two owners with two ids each; the lock lasts less than a second and every
\* deposit is of the largest amount, native or cw20.
KeyIds == {"10", "2"}
KeyTimes == {0, TicksPerSec - 1, TicksPerSec}
KeyNativeBalances == {Native(<<Coin("token", MaxAmount)>>)}

NextKeys ==
    Step(Owners, KeyIds, KeyTimes, {1}, KeyNativeBalances, Tokens, {MaxAmount})

SpecKeys == Init /\ [][NextKeys]_vars

---------------------------------------------------------------------------
(* Properties *)

\* A step that runs a call (as opposed to Return).
IsCall == Idle /\ call'.op # "none"
\* The key the call of this step addresses, and the key of the call answered.
StepKey == Key(call'.sender, call'.id)
CallKey == Key(call.sender, call.id)

LockOps == {"lock", "receive_lock"}
IncreaseOps == {"increase_lock", "receive_increase_lock"}

\* C1: ReleaseLock on an existing, not completed lock fails with
\* LockNotExpired whenever now <= expire (also at now = expire) and succeeds at
\* now = expire + 1 tick; no release evaluated at now <= expire completes a
\* lock or produces a transfer.
C1_Step ==
    (IsCall /\ call'.op = "unlock" /\ StepKey \in DOMAIN locks
       /\ ~ locks[StepKey].complete) =>
        /\ (call'.now <= locks[StepKey].expire) =>
              /\ response'.result = "LockNotExpired"
              /\ response'.messages = <<>>
              /\ locks' = locks
        /\ (call'.now = locks[StepKey].expire + 1) =>
              /\ response'.result = "Ok"
              /\ locks'[StepKey].complete
C1_ReleaseOnlyAfterExpiry == [][C1_Step]_vars

\* A release refused exactly at the expiry of an open lock.
C1_Witness ==
    /\ call.op = "unlock"
    /\ response.result = "LockNotExpired"
    /\ CallKey \in DOMAIN locks
    /\ call.now = locks[CallKey].expire
    /\ ~ locks[CallKey].complete

\* C2: ReleaseLock succeeds at most once per (owner, id): a release of a
\* completed lock fails with LockComplete, produces no transfer and changes
\* nothing (whatever top-ups happened in between); a release that succeeds
\* finds the lock not completed and leaves it completed.
C2_Step ==
    (IsCall /\ call'.op = "unlock" /\ StepKey \in DOMAIN locks) =>
        /\ locks[StepKey].complete =>
              /\ response'.result = "LockComplete"
              /\ response'.messages = <<>>
              /\ locks' = locks
        /\ response'.result = "Ok" =>
              /\ ~ locks[StepKey].complete
              /\ locks'[StepKey].complete
C2_ReleaseAtMostOnce == [][C2_Step]_vars

\* A second release refused on a completed lock that was topped up: it holds
\* native coins and a cw20 amount, and one deposit brings only one of them.
C2_Witness ==
    /\ call.op = "unlock"
    /\ response.result = "LockComplete"
    /\ call.now > locks[CallKey].expire
    /\ locks[CallKey].funds.native # <<>>
    /\ locks[CallKey].funds.cw20 # <<>>

\* C3: a CreateLock with a non-empty deposit and
\* now < expire < now + max_lock_time succeeds exactly once per (owner, id):
\* on a free key it succeeds and stores its lock, on a used key it fails with
\* AlreadyInUse and the stored lock stays.
C3_Step ==
    (IsCall /\ call'.op \in LockOps /\ ~ is_empty(call'.balance)
       /\ call'.now < call'.expire
       /\ call'.expire < call'.now + state.max_lock_time * TicksPerSec) =>
        IF StepKey \in DOMAIN locks
        THEN /\ response'.result = "AlreadyInUse"
             /\ locks' = locks
        ELSE /\ response'.result = "Ok"
             /\ locks' = save(locks, StepKey,
                              Lock(call'.now, call'.expire,
                                   into_generic(call'.balance), FALSE, call'.sender))
C3_CreateExactlyOnce == [][C3_Step]_vars

\* C4: CreateLock with a non-empty deposit fails with LowExpired when
\* expire <= now and with HighExpired when the expiry is in the future and
\* expire - now >= max_lock_time; no lock is inserted in either case.
C4_Step ==
    (IsCall /\ call'.op \in LockOps /\ ~ is_empty(call'.balance)) =>
        /\ (call'.expire <= call'.now) =>
              /\ response'.result = "LowExpired"
              /\ locks' = locks
        /\ (/\ call'.expire > call'.now
            /\ call'.expire - call'.now >= state.max_lock_time * TicksPerSec) =>
              /\ response'.result = "HighExpired"
              /\ locks' = locks
C4_ExpiryBounds == [][C4_Step]_vars

\* A creation refused with a duration of exactly max_lock_time seconds.
C4_Witness ==
    /\ call.op \in LockOps
    /\ response.result = "HighExpired"
    /\ state.max_lock_time > 0
    /\ call.expire - call.now = state.max_lock_time * TicksPerSec
    /\ CallKey \notin DOMAIN locks

\* C5: a successful ReleaseLock(caller, id) completes only the lock under
\* (caller, id), whose owner is the caller, and sends every transfer to the
\* caller; no call completes a lock of another owner than its sender, also
\* when both owners use the same id.
C5_Step ==
    IsCall =>
        /\ \A k \in DOMAIN locks' : locks'[k].owner = k[1]
        /\ \A k \in DOMAIN locks :
              (k[1] # call'.sender) =>
                  k \in DOMAIN locks' /\ locks'[k].complete = locks[k].complete
        /\ \A i \in DOMAIN response'.messages :
              response'.messages[i].to = call'.sender
        /\ (call'.op = "unlock" /\ response'.result = "Ok") =>
              /\ StepKey \in DOMAIN locks
              /\ locks[StepKey].owner = call'.sender
              /\ locks'[StepKey].complete
              /\ \A k \in DOMAIN locks' \ {StepKey} :
                    k \in DOMAIN locks /\ locks'[k].complete = locks[k].complete
C5_ReleaseOwnLockOnly == [][C5_Step]_vars

\* A release by one owner while another owner's lock with the same id is
\* open and past its expiry at that time.
C5_Witness ==
    /\ call.op = "unlock"
    /\ response.result = "Ok"
    /\ response.messages # <<>>
    /\ \E o \in Owners :
          /\ o # call.sender
          /\ Key(o, call.id) \in DOMAIN locks
          /\ ~ locks[Key(o, call.id)].complete
          /\ call.now > locks[Key(o, call.id)].expire

\* The amount a list of coins or cw20 entries holds under key v of field f.
RECURSIVE AmountOf(_, _, _)
AmountOf(seq, f, v) ==
    IF seq = <<>> THEN 0
    ELSE (IF Head(seq)[f] = v THEN Head(seq).amount ELSE 0)
         + AmountOf(Tail(seq), f, v)

AllDenoms == Denoms \cup FundDenoms
AllTokens == Tokens \cup FundTokens

NativeAmount(funds, d) == AmountOf(funds.native, "denom", d)
TokenAmount(funds, t) == AmountOf(funds.cw20, "address", t)
\* What a deposit brings of denom d, of cw20 contract t.
DepositNative(balance, d) == AmountOf(balance.coins, "denom", d)
DepositToken(balance, t) ==
    IF balance.kind = "cw20" /\ balance.address = t THEN balance.amount ELSE 0

\* The deposit merged into the funds held before the step.
Merged(before, after, balance) ==
    /\ \A d \in AllDenoms :
          NativeAmount(after, d) = NativeAmount(before, d) + DepositNative(balance, d)
    /\ \A t \in AllTokens :
          TokenAmount(after, t) = TokenAmount(before, t) + DepositToken(balance, t)

NoFunds == [native |-> <<>>, cw20 |-> <<>>]

\* C6: a successful ReleaseLock pays out exactly the funds stored at release
\* time, which are the creation deposit merged with every top-up that
\* succeeded: one bank send with the native coins (none when the native amount
\* is zero), then one cw20 transfer per cw20 entry with that entry's amount,
\* all to the caller.
C6_Step ==
    /\ (IsCall /\ call'.op \in LockOps /\ response'.result = "Ok") =>
          Merged(NoFunds, locks'[StepKey].funds, call'.balance)
    /\ (IsCall /\ call'.op \in IncreaseOps /\ response'.result = "Ok") =>
          Merged(locks[StepKey].funds, locks'[StepKey].funds, call'.balance)
    /\ (IsCall /\ call'.op = "unlock" /\ response'.result = "Ok") =>
          LET f == locks[StepKey].funds
              m == response'.messages
              nb == IF \A d \in AllDenoms : NativeAmount(f, d) = 0 THEN 0 ELSE 1
          IN /\ Len(m) = nb + Len(f.cw20)
             /\ (nb = 1) =>
                   /\ m[1].type = "bank"
                   /\ m[1].to = call'.sender
                   /\ \A d \in AllDenoms :
                         AmountOf(m[1].native, "denom", d) = NativeAmount(f, d)
             /\ \A i \in DOMAIN f.cw20 :
                   /\ m[nb + i].type = "cw20"
                   /\ m[nb + i].to = call'.sender
                   /\ m[nb + i].contract = f.cw20[i].address
                   /\ m[nb + i].amount = f.cw20[i].amount
                   /\ m[nb + i].amount = TokenAmount(f, f.cw20[i].address)
C6_PayoutIsStoredFunds == [][C6_Step]_vars

\* A release that pays native coins and two cw20 amounts, one of them made
\* of two deposits.
C6_Witness ==
    /\ call.op = "unlock"
    /\ response.result = "Ok"
    /\ Len(response.messages) = 3
    /\ \E i \in DOMAIN response.messages : response.messages[i].amount = 2

\* C7: a failing call (any operation, any failure) leaves the ledger and the
\* configuration as they were and produces no transfer.
C7_Step ==
    (IsCall /\ response'.result # "Ok") =>
        /\ locks' = locks
        /\ state' = state
        /\ response'.messages = <<>>
C7_FailureChangesNothing == [][C7_Step]_vars

\* A creation refused on a key in use, with a deposit other than the one the
\* stored lock holds.
C7_Witness ==
    /\ call.op \in LockOps
    /\ response.result = "AlreadyInUse"
    /\ locks[CallKey].funds # into_generic(call.balance)

\* C8 as stated: once CreateLock has succeeded for (owner, id), every later
\* CreateLock for that key fails with AlreadyInUse.
C8_OriginalStep ==
    (IsCall /\ call'.op \in LockOps /\ StepKey \in DOMAIN locks) =>
        response'.result = "AlreadyInUse"
C8_Original == [][C8_OriginalStep]_vars

\* C8 (amended): a key once created stays in the ledger, and every later
\* CreateLock for it fails and leaves the stored lock as it is, also once the
\* lock is completed: with AlreadyInUse when the deposit is not empty and the
\* expiry passes the two expiry tests, and with the error of the first
\* failing test (EmptyBalance, LowExpired, HighExpired) otherwise.
C8_Step ==
    /\ \A k \in DOMAIN locks : k \in DOMAIN locks'
    /\ (IsCall /\ call'.op \in LockOps /\ StepKey \in DOMAIN locks) =>
          /\ locks' = locks
          /\ response'.result =
                IF is_empty(call'.balance) THEN "EmptyBalance"
                ELSE IF call'.expire <= call'.now THEN "LowExpired"
                ELSE IF seconds(minus_seconds(call'.expire, seconds(call'.now)))
                          >= state.max_lock_time
                     THEN "HighExpired"
                ELSE "AlreadyInUse"
C8_IdsConsumed == [][C8_Step]_vars

\* A creation refused with AlreadyInUse on the key of a completed lock.
C8_Witness ==
    /\ call.op \in LockOps
    /\ response.result = "AlreadyInUse"
    /\ locks[CallKey].complete

\* C9: complete is false from creation until a successful ReleaseLock of that
\* lock and, once true, stays true; a query after a successful release
\* reports complete = true.
C9_Step ==
    /\ \A k \in DOMAIN locks :
          /\ k \in DOMAIN locks'
          /\ locks[k].complete => locks'[k].complete
          /\ (~ locks[k].complete /\ locks'[k].complete) =>
                /\ call'.op = "unlock"
                /\ response'.result = "Ok"
                /\ k = StepKey
    /\ \A k \in DOMAIN locks' \ DOMAIN locks : ~ locks'[k].complete
    /\ (IsCall /\ call'.op = "unlock" /\ response'.result = "Ok") =>
          query_lock(locks', call'.sender, call'.id).complete
C9_CompleteIsTerminal == [][C9_Step]_vars

\* A successful release, after which a query reports the lock complete.
C9_Witness ==
    /\ call.op = "unlock"
    /\ response.result = "Ok"
    /\ locks[CallKey].complete
    /\ query_lock(locks, call.sender, call.id).complete

\* A sum of the merge exceeds the largest amount.
MergeOverflows(funds, balance) ==
    \/ \E d \in AllDenoms : NativeAmount(funds, d) + DepositNative(balance, d) > MaxAmount
    \/ \E t \in AllTokens : TokenAmount(funds, t) + DepositToken(balance, t) > MaxAmount

\* C10 as stated: IncreaseLock on a completed lock with a non-empty deposit
\* succeeds and adds the deposit to the funds.
C10_OriginalStep ==
    (IsCall /\ call'.op \in IncreaseOps /\ ~ is_empty(call'.balance)
       /\ StepKey \in DOMAIN locks /\ locks[StepKey].complete) =>
        /\ response'.result = "Ok"
        /\ Merged(locks[StepKey].funds, locks'[StepKey].funds, call'.balance)
C10_Step ==
    /\ (IsCall /\ call'.op \in IncreaseOps /\ ~ is_empty(call'.balance)
          /\ StepKey \in DOMAIN locks /\ locks[StepKey].complete) =>
          IF MergeOverflows(locks[StepKey].funds, call'.balance)
          THEN /\ response'.result = "Overflow"
               /\ locks' = locks
          ELSE /\ response'.result = "Ok"
               /\ Merged(locks[StepKey].funds, locks'[StepKey].funds, call'.balance)
               /\ locks'[StepKey].complete
    /\ (IsCall /\ call'.op = "unlock" /\ response'.result = "Ok") =>
          locks'[StepKey].funds = locks[StepKey].funds
    /\ (IsCall /\ response'.messages # <<>>) =>
          /\ call'.op = "unlock"
          /\ StepKey \in DOMAIN locks
          /\ ~ locks[StepKey].complete
C11_Step ==
    (IsCall /\ call'.op \in IncreaseOps /\ response'.result = "Ok") =>
        LET before == locks[StepKey].funds
            after == locks'[StepKey].funds
        IN /\ Merged(before, after, call'.balance)
           /\ \A d \in AllDenoms :
                 /\ NativeAmount(after, d) >= NativeAmount(before, d)
                 /\ DepositNative(call'.balance, d) > 0 =>
                       NativeAmount(after, d) > NativeAmount(before, d)
           /\ \A t \in AllTokens :
                 /\ TokenAmount(after, t) >= TokenAmount(before, t)
                 /\ DepositToken(call'.balance, t) > 0 =>
                       TokenAmount(after, t) > TokenAmount(before, t)
           /\ \/ \E d \in AllDenoms :
                    NativeAmount(after, d) > NativeAmount(before, d)
              \/ \E t \in AllTokens :
                    TokenAmount(after, t) > TokenAmount(before, t)
C11_TopUpNeverDecreases == [][C11_Step]_vars

\* A top-up of one denom accepted on a lock that holds a second denom and a
\* cw20 amount, which stay as they were.
C11_Witness ==
    /\ call.op = "increase_lock"
    /\ response.result = "Ok"
    /\ NativeAmount(locks[CallKey].funds, "atom") = MaxAmount
    /\ DepositNative(call.balance, "atom") = 1
    /\ DepositNative(call.balance, "token") = 0
    /\ NativeAmount(locks[CallKey].funds, "token") = 1
    /\ \E t \in AllTokens : TokenAmount(locks[CallKey].funds, t) = 1

\* The deposits of the top-ups compared: one or two coins, or one cw20 amount,
\* every amount up to the largest.
TopUpCoins ==
    {<<Coin(d, a)>> : d \in FundDenoms, a \in 1..MaxAmount}
        \cup {<<Coin("atom", a), Coin("token", b)>> : a, b \in 1..MaxAmount}
TopUps ==
    {Native(c) : c \in TopUpCoins}
        \cup {Cw20(t, a) : t \in FundTokens, a \in 1..MaxAmount}
\* Those that bring one unit of each of their assets.
UnitTopUps ==
    {b \in TopUps :
        /\ \A d \in AllDenoms : DepositNative(b, d) <= 1
        /\ \A t \in AllTokens : DepositToken(b, t) <= 1}

\* The top-ups of the sequence deposits applied to the lock of (sender, id) in
\* the order of the sequence: the ledger at the end, and whether all succeeded.
RECURSIVE TopUpInOrder(_, _, _, _)
TopUpInOrder(ls, deposits, sender, id) ==
    IF deposits = <<>> THEN [ok |-> TRUE, locks |-> ls]
    ELSE LET r == try_increase_lock(ls, Head(deposits), sender, id)
         IN IF r.result # "Ok" THEN [ok |-> FALSE, locks |-> ls]
            ELSE TopUpInOrder(r.locks, Tail(deposits), sender, id)

Orders(n) == {p \in [1..n -> 1..n] : \A i, j \in 1..n : p[i] = p[j] => i = j}

SameAmounts(f, g) ==
    /\ \A d \in AllDenoms : NativeAmount(f, d) = NativeAmount(g, d)
    /\ \A t \in AllTokens : TokenAmount(f, t) = TokenAmount(g, t)

\* The top-ups of deposits succeed on the lock under key k in the order given
\* and in the order p, and leave the same amounts.
SameInOrder(k, deposits, p) ==
    LET there == TopUpInOrder(locks, deposits, k[1], k[2])
        back == TopUpInOrder(locks, [i \in DOMAIN deposits |-> deposits[p[i]]],
                             k[1], k[2])
    IN there.ok =>
          /\ back.ok
          /\ SameAmounts(there.locks[k].funds, back.locks[k].funds)
          /\ \A d \in AllDenoms :
                NativeAmount(there.locks[k].funds, d)
                   = NativeAmount(locks[k].funds, d)
                     + DepositNative(deposits[1], d) + DepositNative(deposits[2], d)
                     + (IF Len(deposits) = 3 THEN DepositNative(deposits[3], d) ELSE 0)
          /\ \A t \in AllTokens :
                TokenAmount(there.locks[k].funds, t)
                   = TokenAmount(locks[k].funds, t)
                     + DepositToken(deposits[1], t) + DepositToken(deposits[2], t)
                     + (IF Len(deposits) = 3 THEN DepositToken(deposits[3], t) ELSE 0)

\* C12: top-ups that all succeed on a lock in one order all succeed in every
\* other order, and the funds at the end hold the same native amount per denom
\* and the same amount per cw20 contract: the amounts before plus the amounts
\* of all the deposits. Stated for two top-ups of any amounts and for three
\* top-ups of one unit, on every lock of every reachable ledger.
C12_TopUpOrderIrrelevant ==
    Idle =>
        \A k \in DOMAIN locks :
            /\ \A b1, b2 \in TopUps : \A p \in Orders(2) :
                  SameInOrder(k, <<b1, b2>>, p)
            /\ \A b1, b2, b3 \in UnitTopUps : \A p \in Orders(3) :
                  SameInOrder(k, <<b1, b2, b3>>, p)

\* A lock that took a top-up and on which three further top-ups succeed in
\* two orders that leave the entries of the funds in different positions.
C12_Witness ==
    /\ call.op \in IncreaseOps
    /\ response.result = "Ok"
    /\ \E b1, b2, b3 \in UnitTopUps :
          LET there == TopUpInOrder(locks, <<b1, b2, b3>>, call.sender, call.id)
              back == TopUpInOrder(locks, <<b3, b2, b1>>, call.sender, call.id)
          IN /\ there.ok
             /\ back.ok
             /\ there.locks[CallKey].funds # back.locks[CallKey].funds

\* A deposit, the funds of a lock, without any amount: zero of every denom and
\* of every cw20 contract.
EmptyDeposit(balance) ==
    /\ \A d \in AllDenoms : DepositNative(balance, d) = 0
    /\ \A t \in AllTokens : DepositToken(balance, t) = 0
EmptyFunds(funds) ==
    /\ \A d \in AllDenoms : NativeAmount(funds, d) = 0
    /\ \A t \in AllTokens : TokenAmount(funds, t) = 0

\* C13: Lock and IncreaseLock with an empty deposit (a zero native amount and
\* no cw20 amount) fail with EmptyBalance and change nothing, and after every
\* step every lock of the ledger has funds that are not empty.
C13_Step ==
    /\ (IsCall /\ call'.op \in LockOps \cup IncreaseOps
          /\ EmptyDeposit(call'.balance)) =>
          /\ response'.result = "EmptyBalance"
          /\ response'.messages = <<>>
          /\ locks' = locks
          /\ state' = state
    /\ \A k \in DOMAIN locks' : ~ EmptyFunds(locks'[k].funds)
C13_EmptyDepositRefused == [][C13_Step]_vars

\* A Lock that sends coins of amount zero only, refused on an empty ledger
\* that the contract has been instantiated for.
C13_Witness ==
    /\ call.op = "lock"
    /\ call.balance.coins # <<>>
    /\ EmptyDeposit(call.balance)
    /\ response.result = "EmptyBalance"
    /\ state.instantiated
    /\ locks = <<>>

\* C14: in every reachable state every lock of the ledger was created before
\* it expires, and lasts less than the max_lock_time (seconds) the contract
\* was instantiated with, whichever it is.
C14_LockWithinBounds ==
    \A k \in DOMAIN locks :
        /\ locks[k].create < locks[k].expire
        /\ locks[k].expire - locks[k].create < state.max_lock_time * TicksPerSec

\* A lock just created with the longest duration its max_lock_time admits:
\* one tick less than max_lock_time seconds.
C14_Witness ==
    /\ call.op \in LockOps
    /\ response.result = "Ok"
    /\ locks[CallKey].create = call.now
    /\ locks[CallKey].expire - locks[CallKey].create
          = state.max_lock_time * TicksPerSec - 1

\* The addresses a query is made for: the owners and the cw20 contracts.
Addresses == Owners \cup AllTokens

\* C15: AllLocks for an owner returns the locks stored under the owner, each
\* once, in ascending order of the bytes of their ids; its length grows by one
\* with every successful Lock of that owner and with nothing else, top-ups and
\* releases included; for an owner without locks it is the empty sequence.
\* Stated of the ledger every call leaves, the first one included.
C15_Step ==
    IsCall =>
        \A o \in Addresses :
            \A q \in {query_locks(locks', o)} :
                /\ \A i, j \in DOMAIN q :
                      i < j => BytesLess(IdBytes(q[i].id), IdBytes(q[j].id))
                /\ \A i \in DOMAIN q :
                      /\ Key(o, q[i].id) \in DOMAIN locks'
                      /\ q[i] = to_lock_info(locks'[Key(o, q[i].id)], q[i].id)
                /\ \A k \in DOMAIN locks' :
                      k[1] = o => \E i \in DOMAIN q : q[i].id = k[2]
                /\ (~ \E k \in DOMAIN locks' : k[1] = o) => q = <<>>
                /\ Len(q) = Len(query_locks(locks, o))
                             + (IF /\ call'.op \in LockOps
                                   /\ response'.result = "Ok"
                                   /\ call'.sender = o
                                THEN 1 ELSE 0)
C15_AllLocksAscending == [][C15_Step]_vars

\* The second lock of alice, created under id "10" after her lock "2" was
\* topped up and released: AllLocks returns "10" before "2", and nothing for
\* bob.
C15_Witness ==
    /\ call.op \in LockOps
    /\ response.result = "Ok"
    /\ call.sender = "alice"
    /\ call.id = "10"
    /\ LET q == query_locks(locks, "alice")
       IN /\ Len(q) = 2
          /\ q[1].id = "10"
          /\ q[2].id = "2"
          /\ q[2].complete
          /\ q[2].native_balance # <<>>
          /\ q[2].cw20_balance # <<>>
    /\ query_locks(locks, "bob") = <<>>

\* C16: a lock of the ledger is never deleted, and its key, owner, create and
\* expire are those of its creation after every step: a successful top-up
\* changes the funds of its lock only, a successful release the complete flag
\* only, and Lock (the query) keeps answering for a completed lock with the
\* id, owner, create and expire it had.
C16_Step ==
    /\ \A k \in DOMAIN locks :
          /\ k \in DOMAIN locks'
          /\ locks'[k].owner = locks[k].owner
          /\ locks'[k].create = locks[k].create
          /\ locks'[k].expire = locks[k].expire
          /\ \A q \in {query_lock(locks', k[1], k[2])} :
                /\ q # NotFound
                /\ q.id = k[2]
                /\ q.owner = k[1]
                /\ q.create = locks[k].create
                /\ q.expire = locks[k].expire
                /\ locks[k].complete => q.complete
    /\ (IsCall /\ call'.op \in LockOps /\ response'.result = "Ok") =>
          /\ StepKey \notin DOMAIN locks
          /\ locks'[StepKey].owner = call'.sender
          /\ locks'[StepKey].create = call'.now
          /\ locks'[StepKey].expire = call'.expire
    /\ (IsCall /\ call'.op \in IncreaseOps /\ response'.result = "Ok") =>
          /\ locks'[StepKey].funds # locks[StepKey].funds
          /\ locks' = [locks EXCEPT ![StepKey].funds = locks'[StepKey].funds]
    /\ (IsCall /\ call'.op = "unlock" /\ response'.result = "Ok") =>
          locks' = [locks EXCEPT ![StepKey].complete = TRUE]
C16_RecordIsKept == [][C16_Step]_vars

\* A top-up accepted on a released lock next to a second lock of the owner:
\* the query answers with the times of the creation and the flag set.
C16_Witness ==
    /\ call.op \in IncreaseOps
    /\ response.result = "Ok"
    /\ \E k \in DOMAIN locks : k # CallKey /\ k[1] = call.sender
    /\ \A q \in {query_lock(locks, call.sender, call.id)} :
          /\ q.complete
          /\ q.owner = call.sender
          /\ q.create = 0
          /\ q.expire = TicksPerSec - 1
          /\ q.native_balance # <<>>
          /\ q.cw20_balance # <<>>

\* C17: a top-up that would take a native or cw20 amount of the lock past the
\* largest amount fails with Overflow and leaves the ledger as it was; no step
\* lowers an amount of a lock, and no stored amount exceeds the largest one.
C17_Step ==
    /\ (IsCall /\ call'.op \in IncreaseOps /\ ~ EmptyDeposit(call'.balance)
          /\ StepKey \in DOMAIN locks
          /\ MergeOverflows(locks[StepKey].funds, call'.balance)) =>
          /\ response'.result = "Overflow"
          /\ response'.messages = <<>>
          /\ locks' = locks
    /\ \A k \in DOMAIN locks :
          /\ k \in DOMAIN locks'
          /\ \A d \in AllDenoms :
                NativeAmount(locks'[k].funds, d) >= NativeAmount(locks[k].funds, d)
          /\ \A t \in AllTokens :
                TokenAmount(locks'[k].funds, t) >= TokenAmount(locks[k].funds, t)
    /\ \A k \in DOMAIN locks' :
          /\ \A d \in AllDenoms : NativeAmount(locks'[k].funds, d) <= MaxAmount
          /\ \A t \in AllTokens : TokenAmount(locks'[k].funds, t) <= MaxAmount
C18_Step ==
    IsCall =>
        /\ (call'.op \in {"instantiate"} \cup LockOps \cup IncreaseOps
              /\ response'.result = "Ok") =>
              response'.messages = <<>>
        /\ response'.messages # <<>> =>
              /\ call'.op = "unlock"
              /\ response'.result = "Ok"
C18_TransfersOnlyOnRelease == [][C18_Step]_vars

\* A cw20 top-up accepted, without a message, on a lock that holds coins of
\* two denoms.
C18_Witness ==
    /\ call.op = "receive_increase_lock"
    /\ response.result = "Ok"
    /\ response.messages = <<>>
    /\ Len(locks[CallKey].funds.native) = 2
    /\ TokenAmount(locks[CallKey].funds, call.balance.address) > 0

\* C19: a lock created or topped up through Receive is stored under, and owned
\* by, the sender the notice declares, never the cw20 contract that invoked
\* the call, and the amount goes under the address of that contract; when the
\* owner releases the lock, each cw20 amount is paid with one transfer sent to
\* the cw20 contract it is held under, with the owner as recipient.
C19_Step ==
    /\ (IsCall /\ call'.op = "receive_lock" /\ response'.result = "Ok") =>
          /\ StepKey \notin DOMAIN locks
          /\ StepKey \in DOMAIN locks'
          /\ locks'[StepKey].owner = call'.sender
          /\ Merged(NoFunds, locks'[StepKey].funds, call'.balance)
          /\ TokenAmount(locks'[StepKey].funds, call'.balance.address)
                = call'.balance.amount
    /\ (IsCall /\ call'.op = "receive_increase_lock" /\ response'.result = "Ok") =>
          /\ StepKey \in DOMAIN locks
          /\ locks'[StepKey].owner = call'.sender
          /\ Merged(locks[StepKey].funds, locks'[StepKey].funds, call'.balance)
          /\ TokenAmount(locks'[StepKey].funds, call'.balance.address)
                = TokenAmount(locks[StepKey].funds, call'.balance.address)
                  + call'.balance.amount
    /\ \A k \in DOMAIN locks' :
          /\ k[1] \notin AllTokens
          /\ locks'[k].owner = k[1]
    /\ (IsCall /\ call'.op = "unlock" /\ response'.result = "Ok") =>
          /\ locks[StepKey].owner = call'.sender
          /\ \A t \in AllTokens :
                TokenAmount(locks[StepKey].funds, t) > 0 =>
                   Cardinality({i \in DOMAIN response'.messages :
                                   /\ response'.messages[i].type = "cw20"
                                   /\ response'.messages[i].contract = t}) = 1
          /\ \A i \in DOMAIN response'.messages :
                response'.messages[i].type = "cw20" =>
                   /\ response'.messages[i].contract \in AllTokens
                   /\ response'.messages[i].to = call'.sender
                   /\ response'.messages[i].amount
                         = TokenAmount(locks[StepKey].funds,
                                       response'.messages[i].contract)
C19_ReceiveCreditsDeclaredSender == [][C19_Step]_vars

\* The release of a lock created through Receive by one cw20 contract and
\* topped up through Receive by the other: two transfers, one to each
\* contract, both with the owner as recipient.
C19_Witness ==
    /\ call.op = "unlock"
    /\ response.result = "Ok"
    /\ locks[CallKey].funds.native = <<>>
    /\ Len(locks[CallKey].funds.cw20) = 2
    /\ Len(response.messages) = 2
    /\ \A i \in 1..2 :
          /\ response.messages[i].type = "cw20"
          /\ response.messages[i].contract = locks[CallKey].funds.cw20[i].address
          /\ response.messages[i].to = locks[CallKey].owner
    /\ response.messages[1].contract # response.messages[2].contract

\* C20: a Lock, IncreaseLock or Unlock for (owner, id), direct or through
\* Receive, whether it succeeds or fails, leaves every lock under another key
\* (the same owner with another id, another owner with the same id) as it
\* was, adds no other key, and leaves max_lock_time and the owner of the
\* contract as they were.
C20_Step ==
    (IsCall /\ call'.op # "instantiate") =>
        /\ state' = state
        /\ DOMAIN locks \subseteq DOMAIN locks'
        /\ DOMAIN locks' \subseteq DOMAIN locks \cup {StepKey}
        /\ \A k \in DOMAIN locks \ {StepKey} : locks'[k] = locks[k]
C20_OneKeyPerCall == [][C20_Step]_vars

\* A top-up accepted for one lock while the other lock of its owner and the
\* lock of the other owner under the same id hold other funds.
C20_Witness ==
    /\ call.op \in IncreaseOps
    /\ response.result = "Ok"
    /\ \E i \in KeyIds \ {call.id} :
          /\ Key(call.sender, i) \in DOMAIN locks
          /\ locks[Key(call.sender, i)].funds # locks[CallKey].funds
    /\ \E o \in Owners \ {call.sender} :
          /\ Key(o, call.id) \in DOMAIN locks
          /\ locks[Key(o, call.id)].funds # locks[CallKey].funds

====
